---------------------------- MODULE Spec2Model ----------------------------
(***************************************************************************)
(* Video render job pipeline of CallSanta: the continuous worker           *)
(* (claimNextJob, runWorkerLoop, handleFailure, setupShutdownHandlers),    *)
(* the render pipeline (renderVideo, concatenateWithOutro,                 *)
(* sendPostCallEmail), the queueing route (queueVideoRender) and the       *)
(* tables and bucket they share (calls, call_events, call-videos).         *)
(*                                                                         *)
(* Every await of the source is one atomic step of the worker that         *)
(* executes it; steps of different workers interleave freely.              *)
(***************************************************************************)
EXTENDS Integers, Sequences, FiniteSets, Bags, TLC

NULL == "null"

\* Worker processes that may run against the same Job Store.
AllWorkers == {"w1", "w2"}

\* Rows of the calls table.  created_at is ascending in the order j1, j2.
Jobs == {"j1", "j2"}

created_at(j) == IF j = "j1" THEN 1 ELSE 2

\* ------------------------------------------------------------------ bounds
\* Pipeline failures injected per job.
MaxFailures == 3

\* Calls of the queueing route over a behaviour.
MaxQueueCalls == 1

\* Payload sizes explored by the duration estimate, in steps of HalfUnit.
MaxHalfSteps == 40

\* --------------------------------------------------------------- constants
\* RETRY_CONFIG
maxRetries == 3

backoffDelays == <<30000, 120000, 600000>>

DefaultBackoff == 600000

\* WORKER_CONFIG
fps == 60

introDurationSeconds == 2

\* renderVideo, step 4
BytesPerSecond == 20000

MinDurationSeconds == 5

\* shutdown handler
maxWait == 300000

ShutdownSleepMs == 1000

VARIABLES
    \* calls table, one column per variable
    recording_url,         \* NULL until the recording of the call is stored
    video_status,          \* NULL | "pending" | "processing" | "completed" | "failed"
    video_retry_count,
    video_url,
    transcript_sent_at,    \* NULL, or the run that wrote the timestamp
    \* call_events table: per call_id, the bag of the rows inserted
    call_events,
    \* call-videos bucket: object key -> bytes
    call_videos,
    \* worker processes
    workers,               \* the processes that were started
    pc,                    \* position of each worker in runWorkerLoop
    job,                   \* the row returned by claimNextJob's select
    currentJobId,
    finalVideoFile,        \* bytes at finalVideoPath
    outroOutcome,          \* what concatenateWithOutro met in this run
    result,                \* RenderResult of the current run
    \* the world outside the worker
    queueCalls,            \* calls of the queueing route so far
    \* bookkeeping of the verification
    affected,              \* rows matched by the worker's last claiming update
    claimWins,             \* claiming updates that matched the job since it last became pending
    failures,              \* pipeline runs of a job that returned failure
    emails,                \* invocations of sendPostCallEmail per job
    sentAtStart,           \* transcript_sent_at of the job when the run started
    eventsAtStart,         \* events of the job when the run started
    urlAtStart,            \* video_url of the job when the run started
    \* renderVideo, this run
    response_status,       \* HTTP status of the audio download: NULL before step 3
    emailOutcome,          \* NULL | "sent" | "send_failed"
    \* graceful shutdown
    shuttingDown,
    waited,                \* Date.now() - startWait of the shutdown handler, in ms
    \* claimNextJob, last call
    claimError,            \* NULL | "select" | "update": the query that returned an error
    \* POST /api/video/render
    retrigger,             \* the request being handled: the call row it read, its answer
    \* duration estimate
    bufferLength,
    durationSeconds,
    totalDurationFrames

callVars == <<recording_url, video_status, video_retry_count, video_url, transcript_sent_at>>

workerVars == <<pc, job, currentJobId, finalVideoFile, outroOutcome, result>>

ghostVars == <<affected, claimWins, failures, emails, sentAtStart,
               eventsAtStart, urlAtStart>>

durationVars == <<bufferLength, durationSeconds, totalDurationFrames>>

runVars == <<response_status, emailOutcome>>

shutdownVars == <<shuttingDown, waited>>

auxVars == <<claimError, retrigger>>

vars == <<callVars, call_events, call_videos, workers, workerVars, queueCalls,
          ghostVars, durationVars, runVars, shutdownVars, auxVars>>

NoJob == [id |-> NULL, video_retry_count |-> 0]

\* ----------------------------------------------------------------- helpers
Max(a, b) == IF a >= b THEN a ELSE b

\* Math.round on a non-negative quotient n / d: half rounds up.
MathRound(n, d) == (2 * n + d) \div (2 * d)

DurationSecondsMutant(size) == Max(MinDurationSeconds, size \div BytesPerSecond)

\* renderVideo step 4: Math.max(5, Math.round(buffer.length / 20000))
DurationSeconds(size) == Max(MinDurationSeconds, MathRound(size, BytesPerSecond))

\* renderVideo step 4: intro frames plus audio frames
TotalDurationFrames(d) == (introDurationSeconds * fps) + (d * fps)

\* Size of the recording stored for a job, in bytes.
AudioSize(j) == IF j = "j1" THEN 100000 ELSE 130000

\* `${callId}.mp4`
VideoFileName(callId) == <<callId, ".mp4">>

\* storage.from('call-videos').getPublicUrl(videoFileName)
PublicUrl(fileName) == <<"call-videos", fileName>>

\* Bytes renderMedia writes to mainVideoPath.
MainVideo(j) == <<"main", j, TotalDurationFrames(DurationSeconds(AudioSize(j)))>>

Event(type, attempt, backoff) ==
    [event_type |-> type, attempt |-> attempt, backoff_ms |-> backoff]

\* insert(row) into call_events
Insert(events, row) == events (+) SetToBag({row})

RECURSIVE SumCopies(_, _)
SumCopies(S, B) ==
    IF S = {} THEN 0
    ELSE LET e == CHOOSE x \in S : TRUE IN CopiesIn(e, B) + SumCopies(S \ {e}, B)

\* Rows of call_events with this call_id and event_type
CountEvents(j, type) ==
    SumCopies({e \in BagToSet(call_events[j]) : e.event_type = type}, call_events[j])

OldestMutant(S) == CHOOSE j \in S : \A k \in S : created_at(j) >= created_at(k)

\* .order('created_at', { ascending: true }).limit(1)
Oldest(S) == CHOOSE j \in S : \A k \in S : created_at(j) <= created_at(k)

EligibleMutant ==
    {j \in Jobs : video_status[j] \in {"pending", "processing"} /\ recording_url[j] # NULL}

\* claimNextJob's select: .eq('video_status','pending').not('recording_url','is',null)
Eligible == {j \in Jobs : video_status[j] = "pending" /\ recording_url[j] # NULL}

ClaimUpdateRowsMutant(status) == 1

\* Rows matched by update(...).eq('id', job.id).eq('video_status', 'pending')
ClaimUpdateRows(status) == IF status = "pending" THEN 1 ELSE 0

ConcatenateWithOutroMutant(mainVideo, outroExists, ffmpegOk) ==
    IF outroExists /\ ffmpegOk THEN Append(mainVideo, "outro") ELSE <<>>

\* concatenateWithOutro: bytes left at outputPath
ConcatenateWithOutro(mainVideo, outroExists, ffmpegOk) ==
    IF ~outroExists THEN mainVideo
    ELSE IF ffmpegOk THEN Append(mainVideo, "outro")
    ELSE mainVideo

EmailGateMutant(fullCallSentAt) == TRUE

\* renderVideo step 14: if (fullCall && !fullCall.transcript_sent_at)
EmailGate(fullCallSentAt) == fullCallSentAt = NULL

IsPermanentMutant(newRetryCount) == newRetryCount > maxRetries

\* handleFailure: newRetryCount >= RETRY_CONFIG.maxRetries
IsPermanent(newRetryCount) == newRetryCount >= maxRetries

BackoffDelayMutant(currentRetryCount) ==
    IF currentRetryCount + 2 \in DOMAIN backoffDelays
    THEN backoffDelays[currentRetryCount + 2]
    ELSE DefaultBackoff

\* handleFailure: RETRY_CONFIG.backoffDelays[currentRetryCount] || 600_000
BackoffDelay(currentRetryCount) ==
    IF currentRetryCount + 1 \in DOMAIN backoffDelays
    THEN backoffDelays[currentRetryCount + 1]
    ELSE DefaultBackoff

\* claimWins after a write of status s to job j: a job that becomes pending
\* starts a new round of claims.
WinsAfterWrite(j, s) ==
    IF s = "pending" /\ video_status[j] # "pending"
    THEN [claimWins EXCEPT ![j] = 0]
    ELSE claimWins

\* A column or field that holds no URL.
NoUrl == <<>>

Success(url) == [success |-> TRUE, videoUrl |-> url, error |-> NULL]

Failure(msg) == [success |-> FALSE, videoUrl |-> NoUrl, error |-> msg]

NoResult == [success |-> FALSE, videoUrl |-> NoUrl, error |-> NULL]

\* no POST /api/video/render is being handled
NoRequest == [callId |-> NULL, video_status |-> NULL, video_url |-> NoUrl, answer |-> NULL]

LoopTopMutant(w) == "poll"

\* while (!shuttingDown): where the loop goes after an iteration
LoopTop(w) == IF shuttingDown[w] THEN "loop_ended" ELSE "poll"

\* ------------------------------------------------------------ claimNextJob
\* The select of the oldest pending job; with none, the loop sleeps and polls again.
ClaimSelect(w) ==
    /\ pc[w] = "poll"
    /\ claimError' = [claimError EXCEPT ![w] = NULL]
    /\ IF Eligible = {}
       THEN /\ pc' = [pc EXCEPT ![w] = LoopTop(w)]
            /\ UNCHANGED <<callVars, call_events, call_videos, workers, job,
                           currentJobId, finalVideoFile, outroOutcome, result,
                           queueCalls, ghostVars, durationVars, runVars, shutdownVars,
                           retrigger>>
       ELSE /\ job' = [job EXCEPT ![w] =
                         [id |-> Oldest(Eligible),
                          video_retry_count |-> video_retry_count[Oldest(Eligible)]]]
            /\ pc' = [pc EXCEPT ![w] = "claim_update"]
            /\ UNCHANGED <<callVars, call_events, call_videos, workers, currentJobId,
                           finalVideoFile, outroOutcome, result, queueCalls,
                           ghostVars, durationVars, runVars, shutdownVars, retrigger>>

\* The claiming update and claimNextJob's return: the job is returned whenever
\* the update reported no error, whatever the number of rows it matched; the
\* loop then sets currentJobId.
ClaimUpdate(w) ==
    /\ pc[w] = "claim_update"
    /\ claimError' = [claimError EXCEPT ![w] = NULL]
    /\ LET j == job[w].id
           rows == ClaimUpdateRows(video_status[j])
       IN  /\ video_status' = IF rows = 1
                              THEN [video_status EXCEPT ![j] = "processing"]
                              ELSE video_status
           /\ affected' = [affected EXCEPT ![w] = rows]
           /\ claimWins' = [claimWins EXCEPT ![j] = @ + rows]
           /\ currentJobId' = [currentJobId EXCEPT ![w] = j]
    /\ pc' = [pc EXCEPT ![w] = "render_start"]
    /\ UNCHANGED <<recording_url, video_retry_count, video_url, transcript_sent_at, call_events,
                   call_videos, workers, job, finalVideoFile, outroOutcome, result,
                   queueCalls, failures, emails, sentAtStart,
                   eventsAtStart, urlAtStart, durationVars, runVars, shutdownVars,
                   retrigger>>

\* ------------------------------------------------------------- renderVideo
\* Step 1: update({ video_status: 'processing' }).eq('id', callId)
RenderStart(w) ==
    /\ pc[w] = "render_start"
    /\ LET j == job[w].id
       IN  /\ video_status' = [video_status EXCEPT ![j] = "processing"]
           /\ claimWins' = WinsAfterWrite(j, "processing")
           /\ sentAtStart' = [sentAtStart EXCEPT ![w] = transcript_sent_at[j]]
           /\ eventsAtStart' = [eventsAtStart EXCEPT ![w] = call_events[j]]
           /\ urlAtStart' = [urlAtStart EXCEPT ![w] = video_url[j]]
    /\ pc' = [pc EXCEPT ![w] = "pipeline"]
    /\ UNCHANGED <<recording_url, video_retry_count, video_url, transcript_sent_at, call_events,
                   call_videos, workers, job, currentJobId, finalVideoFile,
                   outroOutcome, result, queueCalls, affected, failures,
                   emails, durationVars, runVars, shutdownVars, auxVars>>

\* A step of the pipeline throws: the catch of renderVideo returns the failure.
PipelineThrows(w, msg) ==
    /\ failures[job[w].id] < MaxFailures
    /\ failures' = [failures EXCEPT ![job[w].id] = @ + 1]
    /\ result' = [result EXCEPT ![w] = Failure(msg)]
    /\ pc' = [pc EXCEPT ![w] = "returned"]

StepAfterMutant(step) ==
    CASE step = "pipeline" -> "mark_completed"
      [] step = "mark_completed" -> "upload"
      [] step = "upload" -> "log_completed"

\* The order of the steps of renderVideo: steps 2 to 9, then the upload of
\* step 10, then the update of steps 11 and 12, then the event of step 13.
StepAfter(step) ==
    CASE step = "pipeline" -> "upload"
      [] step = "upload" -> "mark_completed"
      [] step = "mark_completed" -> "log_completed"

\* Steps 2 to 9: signed URL, download (answered with a success status),
\* duration, waveform, bundle, render, outro.
RenderMain(w) ==
    /\ pc[w] = "pipeline"
    /\ \/ /\ PipelineThrows(w, "Failed to get signed URL")
          /\ UNCHANGED <<finalVideoFile, outroOutcome, response_status>>
       \/ /\ PipelineThrows(w, "render engine error")
          /\ response_status' = [response_status EXCEPT ![w] = "200"]
          /\ UNCHANGED <<finalVideoFile, outroOutcome>>
       \/ \E outroExists \in BOOLEAN, ffmpegOk \in BOOLEAN :
            /\ response_status' = [response_status EXCEPT ![w] = "200"]
            /\ finalVideoFile' = [finalVideoFile EXCEPT ![w] =
                   ConcatenateWithOutro(MainVideo(job[w].id), outroExists, ffmpegOk)]
            /\ outroOutcome' = [outroOutcome EXCEPT ![w] =
                   IF ~outroExists THEN "missing"
                   ELSE IF ffmpegOk THEN "concatenated" ELSE "ffmpeg_failed"]
            /\ pc' = [pc EXCEPT ![w] = StepAfter("pipeline")]
            /\ UNCHANGED <<result, failures>>
    /\ UNCHANGED <<callVars, call_events, call_videos, workers, job, currentJobId,
                   queueCalls, affected, claimWins, emails, sentAtStart,
                   eventsAtStart, urlAtStart, durationVars, emailOutcome, shutdownVars, auxVars>>

\* Sizes of the body of a download that was answered with an error status.
ErrorBodySizes == {0, 200}

\* Bytes renderMedia writes when the downloaded buffer was such a body.
MainVideoOfErrorBody(j, size) ==
    <<"main", j, TotalDurationFrames(DurationSeconds(size)), "error_body">>

\* Steps 2 to 9 when the download is answered with an error status: fetch
\* resolves, the body is taken as the audio, and the steps go on as above.
RenderMainNotOk(w) ==
    /\ pc[w] = "pipeline"
    /\ response_status' = [response_status EXCEPT ![w] = "404"]
    /\ \/ /\ PipelineThrows(w, "render engine error")
          /\ UNCHANGED <<finalVideoFile, outroOutcome>>
       \/ \E size \in ErrorBodySizes, outroExists \in BOOLEAN, ffmpegOk \in BOOLEAN :
            /\ finalVideoFile' = [finalVideoFile EXCEPT ![w] =
                   ConcatenateWithOutro(MainVideoOfErrorBody(job[w].id, size),
                                        outroExists, ffmpegOk)]
            /\ outroOutcome' = [outroOutcome EXCEPT ![w] =
                   IF ~outroExists THEN "missing"
                   ELSE IF ffmpegOk THEN "concatenated" ELSE "ffmpeg_failed"]
            /\ pc' = [pc EXCEPT ![w] = StepAfter("pipeline")]
            /\ UNCHANGED <<result, failures>>
    /\ UNCHANGED <<callVars, call_events, call_videos, workers, job, currentJobId,
                   queueCalls, affected, claimWins, emails, sentAtStart,
                   eventsAtStart, urlAtStart, durationVars, emailOutcome, shutdownVars, auxVars>>

\* Step 10: upload(videoFileName, videoBuffer, { upsert: true })
Upload(w) ==
    /\ pc[w] = "upload"
    /\ \/ /\ PipelineThrows(w, "Upload failed")
          /\ UNCHANGED call_videos
       \/ /\ call_videos' = (VideoFileName(job[w].id) :> finalVideoFile[w]) @@ call_videos
          /\ pc' = [pc EXCEPT ![w] = StepAfter("upload")]
          /\ UNCHANGED <<result, failures>>
    /\ UNCHANGED <<callVars, call_events, workers, job, currentJobId, finalVideoFile,
                   outroOutcome, queueCalls, affected, claimWins, emails,
                   sentAtStart, eventsAtStart, urlAtStart, durationVars, runVars, shutdownVars, auxVars>>

\* Steps 11 and 12: public URL, update({ video_url, video_status: 'completed' })
MarkCompleted(w) ==
    /\ pc[w] = "mark_completed"
    /\ LET j == job[w].id
       IN  /\ video_url' = [video_url EXCEPT ![j] = PublicUrl(VideoFileName(j))]
           /\ video_status' = [video_status EXCEPT ![j] = "completed"]
           /\ claimWins' = WinsAfterWrite(j, "completed")
    /\ pc' = [pc EXCEPT ![w] = StepAfter("mark_completed")]
    /\ UNCHANGED <<recording_url, video_retry_count, transcript_sent_at, call_events, call_videos,
                   workers, job, currentJobId, finalVideoFile, outroOutcome, result,
                   queueCalls, affected, failures, emails, sentAtStart,
                   eventsAtStart, urlAtStart, durationVars, runVars, shutdownVars, auxVars>>

\* Step 12 when the Job Store rejects the update: the call resolves with an
\* error that nothing reads, and the run goes on with the row unchanged.
MarkCompletedFails(w) ==
    /\ pc[w] = "mark_completed"
    /\ pc' = [pc EXCEPT ![w] = StepAfter("mark_completed")]
    /\ UNCHANGED <<callVars, call_events, call_videos, workers, job, currentJobId,
                   finalVideoFile, outroOutcome, result, queueCalls, ghostVars,
                   durationVars, runVars, shutdownVars, auxVars>>

\* Step 13: insert of the video_render_completed event
LogCompleted(w) ==
    /\ pc[w] = "log_completed"
    /\ call_events' = [call_events EXCEPT ![job[w].id] =
                          Insert(@, Event("video_render_completed", 0, 0))]
    /\ pc' = [pc EXCEPT ![w] = "fetch_full_call"]
    /\ UNCHANGED <<callVars, call_videos, workers, job, currentJobId, finalVideoFile,
                   outroOutcome, result, queueCalls, ghostVars, durationVars, runVars, shutdownVars, auxVars>>

\* The run returns success (step 15 removes the temporary files).
ReturnSuccess(w) ==
    /\ result' = [result EXCEPT ![w] = Success(PublicUrl(VideoFileName(job[w].id)))]
    /\ finalVideoFile' = [finalVideoFile EXCEPT ![w] = <<>>]
    /\ pc' = [pc EXCEPT ![w] = "returned"]

\* Step 14: the fresh select of the call and the test of transcript_sent_at
FetchFullCall(w) ==
    /\ pc[w] = "fetch_full_call"
    /\ IF EmailGate(transcript_sent_at[job[w].id])
       THEN /\ pc' = [pc EXCEPT ![w] = "send_email"]
            /\ UNCHANGED <<result, finalVideoFile>>
       ELSE ReturnSuccess(w)
    /\ UNCHANGED <<callVars, call_events, call_videos, workers, job, currentJobId,
                   outroOutcome, queueCalls, affected, claimWins, failures, emails,
                   sentAtStart, eventsAtStart, urlAtStart, durationVars, runVars, shutdownVars, auxVars>>

\* Step 14: sendPostCallEmail(fullCall, publicUrl), the message is accepted
SendEmail(w) ==
    /\ pc[w] = "send_email"
    /\ emails' = [emails EXCEPT ![job[w].id] = @ + 1]
    /\ emailOutcome' = [emailOutcome EXCEPT ![w] = "sent"]
    /\ pc' = [pc EXCEPT ![w] = "set_sent"]
    /\ UNCHANGED <<callVars, call_events, call_videos, workers, job, currentJobId,
                   finalVideoFile, outroOutcome, result, queueCalls, affected,
                   claimWins, failures, sentAtStart, eventsAtStart,
                   urlAtStart, durationVars, response_status, shutdownVars, auxVars>>

SendPostCallEmailThrowsMutant(sendFailed) == sendFailed

\* sendPostCallEmail: the catch around resend.emails.send logs and does not throw
SendPostCallEmailThrows(sendFailed) == FALSE

\* Step 14: sendPostCallEmail(fullCall, publicUrl), the send fails
SendEmailFails(w) ==
    /\ pc[w] = "send_email"
    /\ emails' = [emails EXCEPT ![job[w].id] = @ + 1]
    /\ emailOutcome' = [emailOutcome EXCEPT ![w] = "send_failed"]
    /\ IF SendPostCallEmailThrows(TRUE)
       THEN PipelineThrows(w, "email send failed")
       ELSE /\ pc' = [pc EXCEPT ![w] = "set_sent"]
            /\ UNCHANGED <<result, failures>>
    /\ UNCHANGED <<callVars, call_events, call_videos, workers, job, currentJobId,
                   finalVideoFile, outroOutcome, queueCalls, affected,
                   claimWins, sentAtStart, eventsAtStart,
                   urlAtStart, durationVars, response_status, shutdownVars, auxVars>>

\* Step 14: update({ transcript_sent_at: now })
SetSent(w) ==
    /\ pc[w] = "set_sent"
    /\ transcript_sent_at' = [transcript_sent_at EXCEPT ![job[w].id] = w]
    /\ pc' = [pc EXCEPT ![w] = "log_email"]
    /\ UNCHANGED <<recording_url, video_status, video_retry_count, video_url, call_events,
                   call_videos, workers, job, currentJobId, finalVideoFile,
                   outroOutcome, result, queueCalls, ghostVars, durationVars, runVars, shutdownVars, auxVars>>

\* Step 14: insert of the post_call_email_sent event, then the return
LogEmail(w) ==
    /\ pc[w] = "log_email"
    /\ call_events' = [call_events EXCEPT ![job[w].id] =
                          Insert(@, Event("post_call_email_sent", 0, 0))]
    /\ ReturnSuccess(w)
    /\ UNCHANGED <<callVars, call_videos, workers, job, currentJobId, outroOutcome,
                   queueCalls, affected, claimWins, failures, emails, sentAtStart,
                   eventsAtStart, urlAtStart, durationVars, runVars, shutdownVars, auxVars>>

\* ----------------------------------------------------------- runWorkerLoop
\* The bookkeeping of a run ends with the loop iteration.
EndOfRun(w) ==
    /\ affected' = [affected EXCEPT ![w] = 0]
    /\ sentAtStart' = [sentAtStart EXCEPT ![w] = NULL]
    /\ eventsAtStart' = [eventsAtStart EXCEPT ![w] = EmptyBag]
    /\ urlAtStart' = [urlAtStart EXCEPT ![w] = NoUrl]
    /\ response_status' = [response_status EXCEPT ![w] = NULL]
    /\ emailOutcome' = [emailOutcome EXCEPT ![w] = NULL]

CurrentJobIdAfterMutant(jobId) == jobId

\* runWorkerLoop, after the success or failure branch: currentJobId = null
CurrentJobIdAfter(jobId) == NULL

\* The loop after renderVideo returned success: currentJobId = null, next claim.
FinishSuccess(w) ==
    /\ pc[w] = "returned"
    /\ result[w].success /\ result[w].videoUrl # NoUrl
    /\ currentJobId' = [currentJobId EXCEPT ![w] = CurrentJobIdAfter(@)]
    /\ job' = [job EXCEPT ![w] = NoJob]
    /\ result' = [result EXCEPT ![w] = NoResult]
    /\ outroOutcome' = [outroOutcome EXCEPT ![w] = NULL]
    /\ EndOfRun(w)
    /\ pc' = [pc EXCEPT ![w] = LoopTop(w)]
    /\ UNCHANGED <<callVars, call_events, call_videos, workers, finalVideoFile,
                   queueCalls, claimWins, failures, emails, durationVars, shutdownVars, auxVars>>

\* handleFailure(job.id, error, job.video_retry_count): the update of the call
HandleFailureUpdate(w) ==
    /\ pc[w] = "returned"
    /\ ~(result[w].success /\ result[w].videoUrl # NoUrl)
    /\ LET j == job[w].id
           newRetryCount == job[w].video_retry_count + 1
           status == IF IsPermanent(newRetryCount) THEN "failed" ELSE "pending"
       IN  /\ video_status' = [video_status EXCEPT ![j] = status]
           /\ video_retry_count' = [video_retry_count EXCEPT ![j] = newRetryCount]
           /\ claimWins' = WinsAfterWrite(j, status)
    /\ pc' = [pc EXCEPT ![w] = "handle_failure_event"]
    /\ UNCHANGED <<recording_url, video_url, transcript_sent_at, call_events, call_videos, workers,
                   job, currentJobId, finalVideoFile, outroOutcome, result,
                   queueCalls, affected, failures, emails, sentAtStart,
                   eventsAtStart, urlAtStart, durationVars, runVars, shutdownVars, auxVars>>

\* handleFailure: the insert of the event; then the loop clears currentJobId.
HandleFailureEvent(w) ==
    /\ pc[w] = "handle_failure_event"
    /\ LET j == job[w].id
           currentRetryCount == job[w].video_retry_count
           newRetryCount == currentRetryCount + 1
       IN  call_events' = [call_events EXCEPT ![j] = Insert(@,
               IF IsPermanent(newRetryCount)
               THEN Event("video_render_failed_permanently", newRetryCount, 0)
               ELSE Event("video_render_retry_scheduled", newRetryCount,
                          BackoffDelay(currentRetryCount)))]
    /\ currentJobId' = [currentJobId EXCEPT ![w] = CurrentJobIdAfter(@)]
    /\ job' = [job EXCEPT ![w] = NoJob]
    /\ result' = [result EXCEPT ![w] = NoResult]
    /\ outroOutcome' = [outroOutcome EXCEPT ![w] = NULL]
    /\ finalVideoFile' = [finalVideoFile EXCEPT ![w] = <<>>]
    /\ EndOfRun(w)
    /\ pc' = [pc EXCEPT ![w] = LoopTop(w)]
    /\ UNCHANGED <<callVars, call_videos, workers, queueCalls, claimWins, failures,
                   emails, durationVars, shutdownVars, auxVars>>

\* ---------------------------------------------------- setupShutdownHandlers
KeepsWaitingMutant(jobId, elapsed) == elapsed < maxWait

\* shutdown: while (currentJobId && Date.now() - startWait < maxWait)
KeepsWaiting(jobId, elapsed) == jobId # NULL /\ elapsed < maxWait

\* SIGINT or SIGTERM: shutdown(signal) runs up to its first await.  With no job
\* in flight it reaches process.exit(0) at once; a claiming update that
\* claimNextJob was awaiting then still reaches the Job Store, or does not.
Signal(w) ==
    /\ pc[w] \notin {"exited", "loop_ended"}
    /\ ~shuttingDown[w]
    /\ shuttingDown' = [shuttingDown EXCEPT ![w] = TRUE]
    /\ waited' = [waited EXCEPT ![w] = 0]
    /\ IF KeepsWaiting(currentJobId[w], 0)
       THEN UNCHANGED <<pc, video_status, affected, claimWins>>
       ELSE /\ pc' = [pc EXCEPT ![w] = "exited"]
            /\ \E rows \in IF pc[w] = "claim_update"
                            THEN {0, ClaimUpdateRows(video_status[job[w].id])}
                            ELSE {0} :
                  /\ video_status' = IF rows = 1
                                     THEN [video_status EXCEPT ![job[w].id] = "processing"]
                                     ELSE video_status
                  /\ claimWins' = IF rows = 1
                                  THEN [claimWins EXCEPT ![job[w].id] = @ + 1]
                                  ELSE claimWins
                  /\ affected' = [affected EXCEPT ![w] = rows]
    /\ UNCHANGED <<recording_url, video_retry_count, video_url, transcript_sent_at,
                   call_events, call_videos, workers, job, currentJobId,
                   finalVideoFile, outroOutcome, result, queueCalls, failures,
                   emails, sentAtStart, eventsAtStart, urlAtStart, durationVars,
                   runVars, auxVars>>

\* The handler wakes from sleep(1000) and tests its loop condition again; when
\* the condition fails it reaches process.exit(0).
ShutdownWait(w) ==
    /\ shuttingDown[w]
    /\ pc[w] # "exited"
    /\ waited' = [waited EXCEPT ![w] = @ + ShutdownSleepMs]
    /\ pc' = IF KeepsWaiting(currentJobId[w], waited[w] + ShutdownSleepMs)
             THEN pc
             ELSE [pc EXCEPT ![w] = "exited"]
    /\ UNCHANGED <<callVars, call_events, call_videos, workers, job, currentJobId,
                   finalVideoFile, outroOutcome, result, queueCalls, ghostVars,
                   durationVars, runVars, shuttingDown, auxVars>>

\* -------------------------------------------------------- queueVideoRender
\* POST /api/video/render of the queueing route: the call exists and has a
\* recording, so queueVideoRender marks it pending and logs the event.
QueueVideoRender(j) ==
    /\ queueCalls < MaxQueueCalls
    /\ recording_url[j] # NULL
    /\ queueCalls' = queueCalls + 1
    /\ video_status' = [video_status EXCEPT ![j] = "pending"]
    /\ claimWins' = WinsAfterWrite(j, "pending")
    /\ call_events' = [call_events EXCEPT ![j] =
                          Insert(@, Event("video_render_queued", 0, 0))]
    /\ UNCHANGED <<recording_url, video_retry_count, video_url, transcript_sent_at, call_videos,
                   workers, workerVars, affected, failures, emails,
                   sentAtStart, eventsAtStart, urlAtStart, durationVars, runVars, shutdownVars, auxVars>>

\* ------------------------------------------------------- duration estimate
HalfUnit == BytesPerSecond \div 2

\* Payload sizes around every rounding boundary up to MaxHalfSteps half units.
Sizes == {s \in {k * HalfUnit + d : k \in 0..MaxHalfSteps, d \in {-1, 0, 1}} : s >= 0}

\* renderVideo step 4 applied to a downloaded buffer
EstimateDuration ==
    /\ durationSeconds = 0
    /\ durationSeconds' = DurationSeconds(bufferLength)
    /\ totalDurationFrames' = TotalDurationFrames(DurationSeconds(bufferLength))
    /\ UNCHANGED <<callVars, call_events, call_videos, workers, workerVars,
                   queueCalls, ghostVars, bufferLength, runVars, shutdownVars, auxVars>>

\* ------------------------------------------------------------------- specs
\* The calls in queued have their recording stored and were queued for
\* rendering; the others have no recording yet.  No worker has touched any.
InitStore(queued) ==
    /\ recording_url = [j \in Jobs |-> IF j \in queued THEN "mp3" ELSE NULL]
    /\ video_status = [j \in Jobs |-> IF j \in queued THEN "pending" ELSE NULL]
    /\ video_retry_count = [j \in Jobs |-> 0]
    /\ video_url = [j \in Jobs |-> NoUrl]
    /\ transcript_sent_at = [j \in Jobs |-> NULL]
    /\ call_events = [j \in Jobs |->
           IF j \in queued THEN SetToBag({Event("video_render_queued", 0, 0)})
           ELSE EmptyBag]
    /\ call_videos = << >>
    /\ queueCalls = 0

InitWorkers ==
    /\ pc = [w \in AllWorkers |-> "poll"]
    /\ job = [w \in AllWorkers |-> NoJob]
    /\ currentJobId = [w \in AllWorkers |-> NULL]
    /\ finalVideoFile = [w \in AllWorkers |-> <<>>]
    /\ outroOutcome = [w \in AllWorkers |-> NULL]
    /\ result = [w \in AllWorkers |-> NoResult]

InitGhost ==
    /\ affected = [w \in AllWorkers |-> 0]
    /\ claimWins = [j \in Jobs |-> 0]
    /\ failures = [j \in Jobs |-> 0]
    /\ emails = [j \in Jobs |-> 0]
    /\ sentAtStart = [w \in AllWorkers |-> NULL]
    /\ eventsAtStart = [w \in AllWorkers |-> EmptyBag]
    /\ urlAtStart = [w \in AllWorkers |-> NoUrl]

InitRun ==
    /\ response_status = [w \in AllWorkers |-> NULL]
    /\ emailOutcome = [w \in AllWorkers |-> NULL]

\* No termination signal was delivered.
InitShutdown ==
    /\ shuttingDown = [w \in AllWorkers |-> FALSE]
    /\ waited = [w \in AllWorkers |-> 0]

InitAux ==
    /\ claimError = [w \in AllWorkers |-> NULL]
    /\ retrigger = NoRequest

InitNoDuration ==
    /\ bufferLength = 0
    /\ durationSeconds = 0
    /\ totalDurationFrames = 0

\* Several worker processes against one Job Store that holds one queued call.
Init ==
    /\ InitStore({"j1"}) /\ InitWorkers /\ InitGhost /\ InitNoDuration
    /\ InitRun /\ InitShutdown /\ InitAux
    /\ workers = AllWorkers

\* The single worker process of the deployment.
InitSolo ==
    /\ InitStore(Jobs) /\ InitWorkers /\ InitGhost /\ InitNoDuration
    /\ InitRun /\ InitShutdown /\ InitAux
    /\ workers = {"w1"}

\* The single worker process and one queued call.
InitOneJob ==
    /\ InitStore({"j1"}) /\ InitWorkers /\ InitGhost /\ InitNoDuration
    /\ InitRun /\ InitShutdown /\ InitAux
    /\ workers = {"w1"}

\* The single worker process and calls that were marked pending when they were
\* created, each with its recording stored or not stored yet.
InitFifo ==
    /\ recording_url \in [Jobs -> {"mp3", NULL}]
    /\ video_status = [j \in Jobs |-> "pending"]
    /\ video_retry_count = [j \in Jobs |-> 0]
    /\ video_url = [j \in Jobs |-> NoUrl]
    /\ transcript_sent_at = [j \in Jobs |-> NULL]
    /\ call_events = [j \in Jobs |-> EmptyBag]
    /\ call_videos = << >>
    /\ queueCalls = 0
    /\ InitWorkers /\ InitGhost /\ InitNoDuration /\ InitRun /\ InitShutdown /\ InitAux
    /\ workers = {"w1"}

\* A downloaded buffer of any size in Sizes, before step 4.
InitDuration ==
    /\ InitStore(Jobs) /\ InitWorkers /\ InitGhost /\ InitRun /\ InitShutdown /\ InitAux
    /\ workers = {}
    /\ bufferLength \in Sizes
    /\ durationSeconds = 0
    /\ totalDurationFrames = 0

\* Worker processes alone.
Next ==
    \/ \E w \in workers : ClaimSelect(w)
    \/ \E w \in workers : ClaimUpdate(w)
    \/ \E w \in workers : RenderStart(w)
    \/ \E w \in workers : RenderMain(w)
    \/ \E w \in workers : Upload(w)
    \/ \E w \in workers : MarkCompleted(w)
    \/ \E w \in workers : LogCompleted(w)
    \/ \E w \in workers : FetchFullCall(w)
    \/ \E w \in workers : SendEmail(w)
    \/ \E w \in workers : SetSent(w)
    \/ \E w \in workers : LogEmail(w)
    \/ \E w \in workers : FinishSuccess(w)
    \/ \E w \in workers : HandleFailureUpdate(w)
    \/ \E w \in workers : HandleFailureEvent(w)

\* The worker process and the queueing route.
NextSolo ==
    \/ Next
    \/ \E j \in Jobs : QueueVideoRender(j)

NextDuration == EstimateDuration

\* The worker process and the termination signal.
NextShutdown ==
    \/ Next
    \/ \E w \in workers : Signal(w)
    \/ \E w \in workers : ShutdownWait(w)

Spec == Init /\ [][Next]_vars

\* One worker process, nothing else writing to the Job Store.
SpecWorker == InitSolo /\ [][Next]_vars

\* The same, with a loop that keeps running: every awaited call returns.
SpecWorkerFair == SpecWorker /\ WF_vars(Next)

\* One worker process and the queueing route.
SpecSolo == InitSolo /\ [][NextSolo]_vars

SpecDuration == InitDuration /\ [][NextDuration]_vars

\* The worker process with a download answered with an error status, a
\* rejected update of step 12 and a failing email send.
NextFaults ==
    \/ Next
    \/ \E w \in workers : RenderMainNotOk(w)
    \/ \E w \in workers : MarkCompletedFails(w)
    \/ \E w \in workers : SendEmailFails(w)

\* One worker process whose collaborators can fail in these three ways.
SpecFaults == InitSolo /\ [][NextFaults]_vars

\* One worker process and calls with and without a recording.
SpecFifo == InitFifo /\ [][Next]_vars

\* One worker process that may receive a termination signal.
SpecShutdown == InitOneJob /\ [][NextShutdown]_vars

\* The same, with the event loop running every callback that is ready: the
\* awaited calls of the loop return and the handler's timer fires.
SpecShutdownFair ==
    /\ SpecShutdown
    /\ WF_vars(Next)
    /\ WF_vars(\E w \in workers : ShutdownWait(w))

\* ------------------------------------------------------------------ claims
\* Positions of a worker inside renderVideo, after its step 1.
RenderPcs == {"pipeline", "upload", "mark_completed", "log_completed",
              "fetch_full_call", "send_email", "set_sent", "log_email"}

\* Positions of step 14 behind the test of transcript_sent_at.
EmailPcs == {"send_email", "set_sent", "log_email"}

\* A failed run of job j is with handleFailure, or about to be.
HandlingFailure(j) ==
    \E w \in workers :
        /\ job[w].id = j
        /\ \/ pc[w] = "returned" /\ ~result[w].success
           \/ pc[w] = "handle_failure_event"

\* The rows of a bag of events whose type is not the given one.
WithoutType(B, type) ==
    [e \in {x \in BagToSet(B) : x.event_type # type} |-> CopiesIn(e, B)]

\* C1: of all claiming updates issued for a job since it last became pending,
\* in any interleaving of the workers, at most one matches a row (and turns the
\* job from pending to processing); the others match zero rows.
ClaimExclusivity == \A j \in Jobs : claimWins[j] <= 1

ClaimExclusivityWitness ==
    \E w1 \in workers, w2 \in workers :
        /\ w1 # w2
        /\ job[w1].id # NULL /\ job[w1].id = job[w2].id
        /\ pc[w1] = "render_start" /\ pc[w2] = "render_start"
        /\ affected[w1] = 1 /\ affected[w2] = 0
        /\ claimWins[job[w1].id] = 1

\* C2: claimNextJob returns no job when its claiming update matched zero rows:
\* a worker that got a job from claimNextJob (currentJobId set) matched one row.
RejectedClaimReturnsNothing ==
    \A w \in workers : currentJobId[w] # NULL => affected[w] = 1

\* C3: no two workers execute renderVideo for the same job at the same time.
OneRenderPerJob ==
    \A w1 \in workers, w2 \in workers :
        (w1 # w2 /\ pc[w1] \in RenderPcs /\ pc[w2] \in RenderPcs)
            => job[w1].id # job[w2].id

\* C4: a job is failed if and only if its pipeline has failed exactly
\* maxRetries times (all of them handled), and a failed job has
\* video_retry_count = maxRetries.
RetryBound ==
    \A j \in Jobs :
        /\ video_status[j] = "failed"
              => failures[j] = 3 /\ video_retry_count[j] = 3
        /\ (failures[j] = 3 /\ ~HandlingFailure(j)) => video_status[j] = "failed"

\* C5: with one worker and nothing else writing, a job whose pipeline failed on
\* 3 consecutive attempts (all handled) is failed with video_retry_count 3, has
\* exactly one video_render_failed_permanently event and two
\* video_render_retry_scheduled events, and the Notifier was never invoked for it.
ScenarioB ==
    \A j \in Jobs :
        (failures[j] = 3 /\ ~HandlingFailure(j)) =>
            /\ video_status[j] = "failed"
            /\ video_retry_count[j] = 3
            /\ CountEvents(j, "video_render_failed_permanently") = 1
            /\ CountEvents(j, "video_render_retry_scheduled") = 2
            /\ emails[j] = 0

ScenarioBWitness ==
    \E j \in Jobs :
        failures[j] = 3 /\ ~HandlingFailure(j) /\ video_status[j] = "failed"

\* C6: the Notifier is invoked at most once per job over its whole history.
NotifiedAtMostOnce == \A j \in Jobs : emails[j] <= 1

\* C7: a run that started for a job whose transcript_sent_at was already set
\* never reaches the Notifier, the write of transcript_sent_at or the insert of
\* post_call_email_sent.
ScenarioE ==
    \A w \in workers : sentAtStart[w] # NULL => pc[w] \notin EmailPcs

ScenarioEWitness ==
    \E w \in workers :
        sentAtStart[w] # NULL /\ pc[w] = "returned" /\ result[w].success

\* C8: in a run whose main render succeeded and whose outro was missing or whose
\* transcode failed, concatenateWithOutro leaves the main render output at
\* finalVideoPath, the upload step is reached and stores exactly those bytes,
\* and the only failure the run can still return is the upload's.
OutroFallback ==
    [][\A w \in workers :
          outroOutcome'[w] \in {"missing", "ffmpeg_failed"} =>
              /\ (pc[w] = "pipeline" /\ pc'[w] # "pipeline") =>
                     /\ pc'[w] = "upload"
                     /\ finalVideoFile'[w] = MainVideo(job[w].id)
              /\ (pc[w] = "upload" /\ pc'[w] = "mark_completed") =>
                     call_videos'[VideoFileName(job[w].id)] = MainVideo(job[w].id)
              /\ (pc[w] # "returned" /\ pc'[w] = "returned" /\ ~result'[w].success) =>
                     result'[w].error = "Upload failed"
      ]_vars

OutroFallbackWitness ==
    \E w \in workers :
        outroOutcome[w] \in {"missing", "ffmpeg_failed"} /\ pc[w] = "mark_completed"

\* C9: for every payload size, durationSeconds is max(5, size / 20000 rounded
\* half up), so at least 5 (5 for 100000 bytes), and totalDurationFrames is
\* 2 * 60 + durationSeconds * 60, so at least 420.
DurationFloor ==
    durationSeconds # 0 =>
        /\ durationSeconds >= 5
        /\ durationSeconds = 5 => bufferLength < 110000
        /\ durationSeconds > 5 =>
               /\ 20000 * durationSeconds - 10000 <= bufferLength
               /\ bufferLength < 20000 * durationSeconds + 10000
        /\ bufferLength = 100000 => durationSeconds = 5
        /\ totalDurationFrames = 2 * 60 + durationSeconds * 60
        /\ totalDurationFrames >= 420

DurationFloorWitness ==
    bufferLength = 100000 /\ durationSeconds = 5 /\ totalDurationFrames = 420

\* C10: a run for a job that already had its video_url (a second successful
\* pipeline) uploads to the key that is already in the bucket, adding no
\* object; writes status completed and the same video_url; and between its
\* start and its successful return the pipeline inserts exactly one event, a
\* video_render_completed.
IdempotentRerun ==
    [][\A w \in workers :
          urlAtStart[w] # NoUrl =>
              /\ (pc[w] = "upload" /\ pc'[w] = "mark_completed") =>
                     /\ VideoFileName(job[w].id) \in DOMAIN call_videos
                     /\ DOMAIN call_videos' = DOMAIN call_videos
              /\ (pc[w] = "mark_completed" /\ pc'[w] = "log_completed") =>
                     /\ video_status'[job[w].id] = "completed"
                     /\ video_url'[job[w].id] = urlAtStart[w]
              /\ (pc[w] # "returned" /\ pc'[w] = "returned" /\ result'[w].success) =>
                     WithoutType(call_events'[job[w].id], "video_render_queued") =
                        WithoutType(eventsAtStart[w], "video_render_queued")
                           (+) SetToBag({Event("video_render_completed", 0, 0)})
      ]_vars

IdempotentRerunWitness ==
    \E w \in workers :
        urlAtStart[w] # NoUrl /\ pc[w] = "returned" /\ result[w].success

\* C11: every change of a job's video_status is one of four transitions:
\* pending to processing by a claim, processing to completed by a successful
\* run, processing to pending by a failure with retries left, processing to
\* failed by a failure with the retries exhausted; so a completed or failed job
\* never changes status again.
StatusTransitions ==
    [][\A j \in Jobs :
          video_status'[j] # video_status[j] =>
              \E w \in workers :
                  /\ job[w].id = j
                  /\ \/ /\ video_status[j] = "pending"
                        /\ video_status'[j] = "processing"
                        /\ pc[w] = "claim_update" /\ pc'[w] = "render_start"
                     \/ /\ video_status[j] = "processing"
                        /\ video_status'[j] = "completed"
                        /\ pc[w] = "mark_completed" /\ pc'[w] = "log_completed"
                     \/ /\ video_status[j] = "processing"
                        /\ video_status'[j] = "pending"
                        /\ pc[w] = "returned" /\ pc'[w] = "handle_failure_event"
                        /\ video_retry_count'[j] < maxRetries
                     \/ /\ video_status[j] = "processing"
                        /\ video_status'[j] = "failed"
                        /\ pc[w] = "returned" /\ pc'[w] = "handle_failure_event"
                        /\ video_retry_count'[j] >= maxRetries
      ]_vars

\* C12: for every job, video_url is present if and only if video_status is
\* completed.
UrlIffCompleted ==
    \A j \in Jobs : (video_url[j] # NoUrl) <=> (video_status[j] = "completed")

\* C13: once a worker has received a termination signal (shuttingDown set), it
\* completes no claim (no job goes from pending to processing through it) and
\* calls renderVideo for no job: only a run that was already started goes on.
ShutdownStopsClaiming ==
    [][\A w \in workers :
          shuttingDown[w] =>
              /\ pc'[w] = "claim_update" => pc[w] = "claim_update"
              /\ pc'[w] = "render_start" => pc[w] = "render_start"
              /\ \A j \in Jobs :
                     (video_status[j] = "pending" /\ video_status'[j] = "processing")
                         => job[w].id # j
      ]_vars

ShutdownStopsClaimingWitness ==
    \E w \in workers :
        shuttingDown[w] /\ pc[w] = "loop_ended" /\ Eligible # {}

\* C14: after a termination signal the worker process eventually exits; with a
\* job in flight it does not exit before the job finished unless 300000 ms have
\* passed since the signal; with no job in flight it exits without waiting.
ShutdownDrain ==
    /\ \A w \in AllWorkers : shuttingDown[w] ~> pc[w] = "exited"
    /\ [](\A w \in workers :
              (pc[w] = "exited" /\ currentJobId[w] # NULL) => waited[w] >= 300000)
    /\ [][\A w \in workers :
              (~shuttingDown[w] /\ shuttingDown'[w] /\ currentJobId[w] = NULL)
                  => pc'[w] = "exited"
         ]_vars

ShutdownDrainWitness ==
    \E w \in workers :
        pc[w] = "exited" /\ currentJobId[w] # NULL /\ waited[w] = 300000

SkipsMissingRecording ==
    \E w \in workers :
        /\ job[w].id = "j2" /\ pc[w] = "claim_update"
        /\ video_status["j1"] = "pending" /\ recording_url["j1"] = NULL

\* C16: in a run whose completed-status update took effect and whose email send
\* then failed, every later step leaves the job completed, the run goes on to
\* the end of step 14 and returns success, and handleFailure is not reached.
EmailErrorsSwallowed ==
    [][\A w \in workers :
          (emailOutcome'[w] = "send_failed" /\ video_status[job[w].id] = "completed") =>
              /\ video_status'[job[w].id] = "completed"
              /\ pc'[w] \in {"set_sent", "log_email", "returned"}
              /\ pc'[w] = "returned" =>
                     (result'[w].success /\ result'[w].videoUrl # NoUrl)
      ]_vars

EmailErrorsSwallowedWitness ==
    \E w \in workers :
        /\ emailOutcome[w] = "send_failed"
        /\ pc[w] = "returned" /\ result[w].success
        /\ video_status[job[w].id] = "completed"

\* C19: a run whose audio download was answered with a non-success HTTP status
\* returns failure without invoking the render engine or uploading: such a run
\* is found only at its return, with a failure that is the download's.
NotOkDownloadFails ==
    \A w \in workers :
        response_status[w] = "404" =>
            /\ pc[w] = "returned"
            /\ ~result[w].success
            /\ result[w].error \notin {"render engine error", "Upload failed"}

\* C20: a run that returned success left its job completed with the video_url it
\* returned: when the update of step 12 is rejected the run returns failure.
SuccessMeansCompleted ==
    \A w \in workers :
        (pc[w] = "returned" /\ result[w].success) =>
            /\ video_status[job[w].id] = "completed"
            /\ video_url[job[w].id] = result[w].videoUrl

\* C17: with one worker that keeps running, every job that is pending with a
\* recording eventually is completed or failed, after at most maxRetries (3)
\* pipeline attempts: a completed job has had at most 2 failed runs before the
\* successful one, a failed job exactly 3 failed runs, and no job more than 3.
EventualTermination ==
    /\ \A j \in Jobs :
           (video_status[j] = "pending" /\ recording_url[j] # NULL)
               ~> (video_status[j] \in {"completed", "failed"})
    /\ [](\A j \in Jobs :
              /\ failures[j] <= 3
              /\ video_status[j] = "completed" => failures[j] <= 2
              /\ video_status[j] = "failed" => failures[j] = 3)

EventualTerminationWitness ==
    \E j \in Jobs : video_status[j] = "completed" /\ failures[j] = 2

\* Messages of the failures of steps 2 to 10.
EarlyFailures == {"Failed to get signed URL", "render engine error", "Upload failed"}

\* C18: when a run returns the failure of a step up to the upload, that run has
\* not written completed or video_url, has inserted no video_render_completed
\* event and has not invoked the Notifier, and handleFailure finds the job
\* processing.
ShortCircuit ==
    \A w \in workers :
        (pc[w] = "returned" /\ ~result[w].success /\ result[w].error \in EarlyFailures) =>
            LET j == job[w].id
            IN  /\ video_status[j] = "processing"
                /\ video_url[j] = urlAtStart[w]
                /\ CountEvents(j, "video_render_completed") =
                       CopiesIn(Event("video_render_completed", 0, 0), eventsAtStart[w])
                /\ emailOutcome[w] = NULL
                /\ transcript_sent_at[j] = sentAtStart[w]

ShortCircuitWitness ==
    \E w \in workers :
        /\ pc[w] = "returned" /\ result[w].error = "Upload failed"
        /\ video_status[job[w].id] = "processing"
        /\ VideoFileName(job[w].id) \notin DOMAIN call_videos

\* ------------------------------------------- claimNextJob: Job Store errors
ClaimReturnMutant(jobId, updateError) == jobId

\* if (updateError) { ...; return null; }  return job as VideoJob;
ClaimReturn(jobId, updateError) == IF updateError THEN NULL ELSE jobId

\* The select of the pending jobs returns an error: claimNextJob logs it and
\* returns null, the loop sleeps pollIntervalMs and goes to its next cycle.
ClaimSelectError(w) ==
    /\ pc[w] = "poll"
    /\ claimError' = [claimError EXCEPT ![w] = "select"]
    /\ pc' = [pc EXCEPT ![w] = LoopTop(w)]
    /\ UNCHANGED <<callVars, call_events, call_videos, workers, job, currentJobId,
                   finalVideoFile, outroOutcome, result, queueCalls, ghostVars,
                   durationVars, runVars, shutdownVars, retrigger>>

\* The claiming update returns an error, the Job Store having rejected it: the
\* row is as it was, claimNextJob returns null and the loop sleeps.
ClaimUpdateError(w) ==
    /\ pc[w] = "claim_update"
    /\ claimError' = [claimError EXCEPT ![w] = "update"]
    /\ LET returned == ClaimReturn(job[w].id, TRUE)
       IN  IF returned = NULL
           THEN /\ job' = [job EXCEPT ![w] = NoJob]
                /\ pc' = [pc EXCEPT ![w] = LoopTop(w)]
                /\ UNCHANGED currentJobId
           ELSE /\ currentJobId' = [currentJobId EXCEPT ![w] = returned]
                /\ pc' = [pc EXCEPT ![w] = "render_start"]
                /\ UNCHANGED job
    /\ UNCHANGED <<callVars, call_events, call_videos, workers, finalVideoFile,
                   outroOutcome, result, queueCalls, ghostVars, durationVars,
                   runVars, shutdownVars, retrigger>>

NextClaimErrors ==
    \/ Next
    \/ \E w \in workers : ClaimSelectError(w)
    \/ \E w \in workers : ClaimUpdateError(w)

\* One worker whose claiming queries can fail.
SpecClaimErrors == InitSolo /\ [][NextClaimErrors]_vars

CatchRetryCountMutant(jobRetryCount) == jobRetryCount

\* catch (err): handleFailure(currentJobId, message, 0)
CatchRetryCount(jobRetryCount) == 0

\* An awaited call of the iteration throws: a query of claimNextJob (no job is
\* current, the catch only sleeps) or a query of handleFailure (the catch
\* calls handleFailure for currentJobId with retry count 0).
IterationThrows(w) ==
    /\ \/ pc[w] \in {"poll", "claim_update", "handle_failure_event"}
       \/ pc[w] = "returned" /\ ~(result[w].success /\ result[w].videoUrl # NoUrl)
    /\ IF currentJobId[w] # NULL
       THEN /\ job' = [job EXCEPT ![w] =
                         [id |-> currentJobId[w],
                          video_retry_count |-> CatchRetryCount(job[w].video_retry_count)]]
            /\ pc' = [pc EXCEPT ![w] = "catch"]
            /\ UNCHANGED claimError
       ELSE /\ job' = [job EXCEPT ![w] = NoJob]
            /\ claimError' = [claimError EXCEPT ![w] = "thrown"]
            /\ pc' = [pc EXCEPT ![w] = LoopTop(w)]
    /\ UNCHANGED <<callVars, call_events, call_videos, workers, currentJobId,
                   finalVideoFile, outroOutcome, result, queueCalls, ghostVars,
                   durationVars, runVars, shutdownVars, retrigger>>

\* handleFailure called from the catch: the update of the call
CatchHandleFailureUpdate(w) ==
    /\ pc[w] = "catch"
    /\ LET j == job[w].id
           newRetryCount == job[w].video_retry_count + 1
           status == IF IsPermanent(newRetryCount) THEN "failed" ELSE "pending"
       IN  /\ video_status' = [video_status EXCEPT ![j] = status]
           /\ video_retry_count' = [video_retry_count EXCEPT ![j] = newRetryCount]
           /\ claimWins' = WinsAfterWrite(j, status)
    /\ pc' = [pc EXCEPT ![w] = "catch_event"]
    /\ UNCHANGED <<recording_url, video_url, transcript_sent_at, call_events, call_videos, workers,
                   job, currentJobId, finalVideoFile, outroOutcome, result,
                   queueCalls, affected, failures, emails, sentAtStart,
                   eventsAtStart, urlAtStart, durationVars, runVars, shutdownVars, auxVars>>

\* The end of the catch: currentJobId = null, sleep(pollIntervalMs), next cycle.
CatchEnd(w) ==
    /\ currentJobId' = [currentJobId EXCEPT ![w] = NULL]
    /\ job' = [job EXCEPT ![w] = NoJob]
    /\ result' = [result EXCEPT ![w] = NoResult]
    /\ outroOutcome' = [outroOutcome EXCEPT ![w] = NULL]
    /\ finalVideoFile' = [finalVideoFile EXCEPT ![w] = <<>>]
    /\ EndOfRun(w)
    /\ pc' = [pc EXCEPT ![w] = LoopTop(w)]

\* handleFailure called from the catch: the insert of the event, then the end
CatchHandleFailureEvent(w) ==
    /\ pc[w] = "catch_event"
    /\ LET j == job[w].id
           currentRetryCount == job[w].video_retry_count
           newRetryCount == currentRetryCount + 1
       IN  call_events' = [call_events EXCEPT ![j] = Insert(@,
               IF IsPermanent(newRetryCount)
               THEN Event("video_render_failed_permanently", newRetryCount, 0)
               ELSE Event("video_render_retry_scheduled", newRetryCount,
                          BackoffDelay(currentRetryCount)))]
    /\ CatchEnd(w)
    /\ UNCHANGED <<callVars, call_videos, workers, queueCalls, claimWins, failures,
                   emails, durationVars, shutdownVars, auxVars>>

\* handleFailure called from the catch throws in its turn: catch (retryErr)
\* only logs it.
CatchSwallows(w) ==
    /\ pc[w] \in {"catch", "catch_event"}
    /\ CatchEnd(w)
    /\ UNCHANGED <<callVars, call_events, call_videos, workers, queueCalls, claimWins,
                   failures, emails, durationVars, shutdownVars, auxVars>>

NextCatch ==
    \/ NextShutdown
    \/ \E w \in workers : IterationThrows(w)
    \/ \E w \in workers : CatchHandleFailureUpdate(w)
    \/ \E w \in workers : CatchHandleFailureEvent(w)
    \/ \E w \in workers : CatchSwallows(w)

\* One worker and one job, with exceptions in the loop and a shutdown signal.
SpecCatch == InitOneJob /\ [][NextCatch]_vars

CatchPcs == {"catch", "catch_event"}

\* C22: the loop survives every exception.  An exception thrown while a job is
\* current enters the catch with handleFailure called for that job with retry
\* count 0 (the row becomes pending with retry count 1); the catch, also when
\* that call throws, ends with currentJobId cleared and the loop at its next
\* cycle; an exception with no current job goes to the next cycle directly;
\* and the loop has ended only if shuttingDown is set.
LoopSurvivesErrors ==
    [][\A w \in workers :
            /\ pc'[w] = "loop_ended" => shuttingDown'[w]
            /\ (pc[w] \notin CatchPcs /\ pc'[w] = "catch")
               => /\ currentJobId[w] # NULL
                  /\ job'[w] = [id |-> currentJobId[w], video_retry_count |-> 0]
            /\ (pc[w] = "catch" /\ pc'[w] = "catch_event")
               => /\ video_status'[currentJobId[w]] = "pending"
                  /\ video_retry_count'[currentJobId[w]] = 1
            /\ (pc[w] \in CatchPcs /\ pc'[w] \notin CatchPcs \union {"exited"})
               => /\ currentJobId'[w] = NULL
                  /\ pc'[w] = IF shuttingDown[w] THEN "loop_ended" ELSE "poll"
            /\ (/\ pc[w] \in {"poll", "claim_update"}
                /\ claimError'[w] = "thrown"
                /\ UNCHANGED shutdownVars)
               => /\ currentJobId'[w] = NULL
                  /\ pc'[w] = IF shuttingDown[w] THEN "loop_ended" ELSE "poll"
                  /\ UNCHANGED <<callVars, call_events>>]_vars

\* the insert of handleFailure threw after the second failure of a job was
\* written, and the catch has handled it as a first failure
LoopSurvivesErrorsWitness ==
    \E w \in workers :
        /\ pc[w] = "catch_event"
        /\ failures[currentJobId[w]] = 2
        /\ video_retry_count[currentJobId[w]] = 1

\* C23: every call of handleFailure, from the loop or from its catch, leaves
\* video_retry_count of the job exactly one greater than the value persisted
\* just before the call.
FailureIncrementsCount ==
    [][\A w \in workers :
          (\/ pc[w] = "returned" /\ pc'[w] = "handle_failure_event"
           \/ pc[w] = "catch" /\ pc'[w] = "catch_event")
          => video_retry_count'[job[w].id] = video_retry_count[job[w].id] + 1]_vars

NotifiedOnlyWhenSent ==
    \A w \in workers :
        emailOutcome[w] = "send_failed"
        => /\ transcript_sent_at[job[w].id] = NULL
           /\ CountEvents(job[w].id, "post_call_email_sent") = 0

\* ------------------------------------------------- a worker process that dies
\* The process ends without the loop having finished its iteration: killed,
\* out of memory, or exited by the shutdown handler at its timeout.  A claiming
\* update it was awaiting still reaches the Job Store, or does not.
Crash(w) ==
    /\ pc[w] # "exited"
    /\ pc' = [pc EXCEPT ![w] = "exited"]
    /\ \E rows \in IF pc[w] = "claim_update"
                    THEN {0, ClaimUpdateRows(video_status[job[w].id])}
                    ELSE {0} :
          /\ video_status' = IF rows = 1
                             THEN [video_status EXCEPT ![job[w].id] = "processing"]
                             ELSE video_status
          /\ claimWins' = IF rows = 1
                          THEN [claimWins EXCEPT ![job[w].id] = @ + 1]
                          ELSE claimWins
    /\ UNCHANGED <<recording_url, video_retry_count, video_url, transcript_sent_at,
                   call_events, call_videos, workers, job, currentJobId,
                   finalVideoFile, outroOutcome, result, queueCalls, affected, failures,
                   emails, sentAtStart, eventsAtStart, urlAtStart, durationVars,
                   runVars, shutdownVars, auxVars>>

\* main(): a new worker process is started once the previous one is gone.
StartWorker(w) ==
    /\ w \notin workers
    /\ \A v \in workers : pc[v] = "exited"
    /\ workers' = workers \union {w}
    /\ UNCHANGED <<callVars, call_events, call_videos, workerVars, queueCalls,
                   ghostVars, durationVars, runVars, shutdownVars, auxVars>>

NextRestart ==
    \/ Next
    \/ \E w \in workers : Crash(w)
    \/ \E w \in AllWorkers : StartWorker(w)

\* One worker process at a time: it can die at any step and is then replaced.
SpecRestart == InitSolo /\ [][NextRestart]_vars

\* job j was left in processing by a worker process that is gone, and no
\* running worker has it as the job of its iteration
Orphaned(j) ==
    /\ video_status[j] = "processing"
    /\ \E w \in workers : pc[w] = "exited" /\ job[w].id = j
    /\ \A w \in workers : pc[w] # "exited" => job[w].id # j

InFlightPcs == RenderPcs \union {"render_start", "returned", "handle_failure_event"}

\* C27: one job in flight per worker.  currentJobId is non-null exactly while
\* the worker is between the claim and the end of its success or failure
\* handling, and it then names the job of the iteration; claimNextJob is only
\* running with currentJobId cleared; and every job in processing is the
\* current job of a worker, so no worker has a second unfinished claim.
OneJobInFlight ==
    /\ \A w \in workers :
          /\ (currentJobId[w] # NULL) <=> (pc[w] \in InFlightPcs)
          /\ currentJobId[w] # NULL => currentJobId[w] = job[w].id
          /\ pc[w] \in {"poll", "claim_update"} => currentJobId[w] = NULL
    /\ {j \in Jobs : video_status[j] = "processing"}
          \subseteq {currentJobId[w] : w \in workers}

\* the worker has finished its first job and is rendering the second
OneJobInFlightWitness ==
    \E w \in workers :
        /\ pc[w] = "pipeline"
        /\ currentJobId[w] = "j2"
        /\ video_status["j1"] \in {"completed", "failed"}
        /\ video_status["j2"] = "processing"

\* C28: audit-log accounting.  For every job, whenever no handleFailure is
\* between its update of the call and its insert of the event,
\* video_retry_count equals the number of video_render_retry_scheduled events
\* plus the number of video_render_failed_permanently events of the job.
AuditLogAccounting ==
    \A j \in Jobs :
        (\A w \in workers :
            ~(job[w].id = j /\ pc[w] \in {"handle_failure_event", "catch_event"}))
        => video_retry_count[j] =
              CountEvents(j, "video_render_retry_scheduled")
              + CountEvents(j, "video_render_failed_permanently")

\* C29: a worker that exited through the shutdown handler before the timeout
\* has left no job in processing, whenever the signal arrived.
GracefulExitLeavesNoOrphan ==
    \A w \in workers :
        (pc[w] = "exited" /\ shuttingDown[w] /\ waited[w] < maxWait)
        => \A j \in Jobs : video_status[j] # "processing"

\* ------------------------------------ POST /api/video/render, guarded route
\* What the route does with the call row it fetched.
RouteAnswer(status, url) ==
    IF status = "processing" THEN "409"
    ELSE IF status = "completed" /\ url # NoUrl THEN "200_existing"
    ELSE "200_queued"

\* The route fetches the call: select('*').eq('id', callId).single()
RetriggerSelect(j) ==
    /\ queueCalls < MaxQueueCalls
    /\ retrigger.callId = NULL
    /\ recording_url[j] # NULL
    /\ queueCalls' = queueCalls + 1
    /\ retrigger' = [callId |-> j, video_status |-> video_status[j],
                     video_url |-> video_url[j], answer |-> NULL]
    /\ UNCHANGED <<callVars, call_events, call_videos, workers, workerVars,
                   ghostVars, durationVars, runVars, shutdownVars, claimError>>

\* The route tests the row it fetched and answers; when neither test applies
\* it calls renderSantaVideo, whose queueVideoRender marks the call pending
\* and logs the event.
RetriggerAnswer ==
    /\ retrigger.callId # NULL
    /\ retrigger.answer = NULL
    /\ LET j == retrigger.callId
           answer == RouteAnswer(retrigger.video_status, retrigger.video_url)
       IN  /\ retrigger' = [retrigger EXCEPT !.answer = answer]
           /\ IF answer = "200_queued"
              THEN /\ video_status' = [video_status EXCEPT ![j] = "pending"]
                   /\ claimWins' = WinsAfterWrite(j, "pending")
                   /\ call_events' = [call_events EXCEPT ![j] =
                                         Insert(@, Event("video_render_queued", 0, 0))]
              ELSE UNCHANGED <<video_status, claimWins, call_events>>
    /\ UNCHANGED <<recording_url, video_retry_count, video_url, transcript_sent_at,
                   call_videos, workers, workerVars, queueCalls, affected, failures,
                   emails, sentAtStart, eventsAtStart, urlAtStart, durationVars,
                   runVars, shutdownVars, claimError>>

NextRetrigger ==
    \/ Next
    \/ \E j \in Jobs : RetriggerSelect(j)
    \/ RetriggerAnswer

\* One worker, and a POST to the guarded route at any moment.
SpecRetrigger == InitSolo /\ [][NextRetrigger]_vars

\* C30: the re-trigger guard.  A request that fetched the call in processing
\* answers 409, one that fetched it completed with a video_url answers with the
\* existing URL, both without a write; and no answer of the route moves a job
\* that is processing or completed back to pending.
RetriggerGuard ==
    [][(retrigger.answer = NULL /\ retrigger'.answer # NULL)
       => LET j == retrigger.callId
          IN  /\ retrigger.video_status = "processing"
                 => retrigger'.answer = "409" /\ UNCHANGED <<callVars, call_events>>
              /\ (retrigger.video_status = "completed" /\ retrigger.video_url # NoUrl)
                 => /\ retrigger'.answer = "200_existing"
                    /\ UNCHANGED <<callVars, call_events>>
              /\ ~(/\ video_status[j] \in {"processing", "completed"}
                   /\ video_status'[j] = "pending")]_vars

=============================================================================
